---- MODULE Spec2Model ----
(***************************************************************************)
(* Model of OTMORRIS::MorrisExperiment (lib/src/MorrisExperiment.cxx): the *)
(* four constructors, save()/load() and generate(), with its helpers       *)
(* getOrientationMatrixColumn, generateXBaseFromLHS, generateXBaseFromGrid.*)
(*                                                                         *)
(* Numbers.  A finite NumericalScalar x is represented by the integer      *)
(* x * Scale.  Scale is a common multiple of every denominator the         *)
(* modelled inputs can produce (levels - 1, 2 * pool size, the interval    *)
(* widths), so that every product and quotient of finite values is exact   *)
(* in the model; rounding of IEEE doubles is not modelled.  The three      *)
(* non-finite doubles are values of their own: Infinity, -Infinity and NaN,*)
(* produced and propagated by Plus, Times and Over as IEEE 754 does.       *)
(* Indices are 0-based as in the source: a NumericalPoint of dimension d   *)
(* is a function on 0 .. d-1, the points of a sample of size n a function  *)
(* on 0 .. n-1.                                                            *)
(***************************************************************************)
EXTENDS Integers, FiniteSets, Sequences, TLC

VARIABLES gen, args

vars == <<gen, args>>

(***************************************************************************)
(* Bounds of the explored inputs.                                          *)
(***************************************************************************)
MaxDim == 2
MaxN == 2
MaxLevel == 3
MaxPool == 2

Scale == 2 * 3 * 4 * 5

Dims == 0 .. MaxDim

Vec(d, S) == [0 .. d - 1 -> S]

Dim(x) == Cardinality(DOMAIN x)

(***************************************************************************)
(* NumericalScalar arithmetic, with the non-finite values of a double.     *)
(***************************************************************************)
Infinity == Scale * Scale * Scale

NaN == Infinity + Infinity

IsNumber(x) == x # NaN /\ x # Infinity /\ x # -Infinity

Sign(x) == IF x > 0 THEN 1 ELSE IF x < 0 THEN -1 ELSE 0

(* -x *)
Neg(x) == IF x = NaN THEN NaN ELSE -x

(* x + y: inf + (-inf) is NaN *)
Plus(x, y) ==
  IF x = NaN \/ y = NaN THEN NaN
  ELSE IF ~IsNumber(x) /\ ~IsNumber(y) THEN (IF x = y THEN x ELSE NaN)
  ELSE IF ~IsNumber(x) THEN x
  ELSE IF ~IsNumber(y) THEN y
  ELSE x + y

(* x * y: 0 * inf is NaN *)
Times(x, y) ==
  IF x = NaN \/ y = NaN THEN NaN
  ELSE IF ~IsNumber(x) \/ ~IsNumber(y)
         THEN (IF x = 0 \/ y = 0 THEN NaN ELSE Sign(x) * Sign(y) * Infinity)
  ELSE (x * y) \div Scale

(* x / y: 0 / 0 and inf / inf are NaN, x / 0 is +-inf, x / inf is 0 *)
Over(x, y) ==
  IF x = NaN \/ y = NaN THEN NaN
  ELSE IF ~IsNumber(x) /\ ~IsNumber(y) THEN NaN
  ELSE IF ~IsNumber(x) THEN (IF y < 0 THEN -x ELSE x)
  ELSE IF ~IsNumber(y) THEN 0
  ELSE IF y = 0 THEN (IF x = 0 THEN NaN ELSE Sign(x) * Infinity)
  ELSE (x * Scale) \div y

(* static_cast<UnsignedInteger>(x) of a finite x >= 0 *)
Truncate(x) == x \div Scale

(***************************************************************************)
(* The arguments of the constructors.                                      *)
(***************************************************************************)
(* level counts handed to the constructors; 0 and 1 are the rejected ones *)
LevelVectors == UNION {Vec(d, 0 .. MaxLevel) : d \in Dims}

(* one-dimensional bounds [lo, up] with lo <= up; the last has no width *)
Bounds1D == {<<0, Scale>>, <<Scale, 3 * Scale>>, <<2 * Scale, 2 * Scale>>}

Intervals ==
  UNION {{[lower |-> [p \in 0 .. d - 1 |-> b[p][1]],
           upper |-> [p \in 0 .. d - 1 |-> b[p][2]]] : b \in Vec(d, Bounds1D)}
         : d \in Dims}

(* coordinates of the points of a supplied design: -0.5, 0.5, 1, 1.5 *)
PoolVals == {-(Scale \div 2), Scale \div 2, Scale, (3 * Scale) \div 2}

(* a NumericalSample: its dimension and its points *)
Sample(d, points) == [dimension |-> d, points |-> points]

(* the designs handed to the constructors: of every dimension and of every *)
(* size from 0, the empty design, to MaxPool                               *)
Pools ==
  UNION {UNION {{Sample(d, f) : f \in [0 .. n - 1 -> Vec(d, PoolVals)]} : n \in 0 .. MaxPool}
         : d \in Dims}

Empty == <<>>

NoInterval == [lower |-> Empty, upper |-> Empty]

NoDesign == Sample(0, Empty)

(* the arguments of one constructor call *)
Args1 ==
  {[mode |-> 1, levels |-> l, interval |-> NoInterval, lhsDesign |-> NoDesign, N |-> n]
     : l \in LevelVectors, n \in 0 .. MaxN}

Args2 ==
  {[mode |-> 2, levels |-> l, interval |-> i, lhsDesign |-> NoDesign, N |-> n]
     : l \in LevelVectors, i \in Intervals, n \in 0 .. MaxN}

Args3 ==
  {[mode |-> 3, levels |-> Empty, interval |-> NoInterval, lhsDesign |-> s, N |-> n]
     : s \in Pools, n \in 0 .. MaxN}

(* any design with any interval, those without width in a coordinate too *)
Args4 ==
  {[mode |-> 4, levels |-> Empty, interval |-> i, lhsDesign |-> s, N |-> n]
     : s \in Pools, i \in Intervals, n \in 0 .. MaxN}

AllArgs == Args1 \cup Args2 \cup Args3 \cup Args4

NoArgs == [mode |-> 0, levels |-> Empty, interval |-> NoInterval, lhsDesign |-> NoDesign, N |-> 0]

(***************************************************************************)
(* OpenTURNS value types used by the class.                                *)
(***************************************************************************)
(* Interval(dimension): the unit cube [0,1]^dimension *)
UnitInterval(d) == [lower |-> [p \in 0 .. d - 1 |-> 0], upper |-> [p \in 0 .. d - 1 |-> Scale]]

IntervalDimension(i) == Dim(i.lower)

SampleSize(s) == Dim(s.points)

SampleDimension(s) == s.dimension

Min(S) == CHOOSE x \in S : \A y \in S : x <= y

Max(S) == CHOOSE x \in S : \A y \in S : y <= x

(* NumericalSample::getMin / getMax of a sample of at least one point:     *)
(* component-wise over the points                                          *)
getMin(s) ==
  [p \in 0 .. SampleDimension(s) - 1 |-> Min({s.points[j][p] : j \in DOMAIN s.points})]

getMax(s) ==
  [p \in 0 .. SampleDimension(s) - 1 |-> Max({s.points[j][p] : j \in DOMAIN s.points})]

(* what getMin() and getMax() hand back.  Of an empty sample the sources   *)
(* do not say: the calls throw, or they return points of the sample's      *)
(* dimension with values of no meaning (here 0.5 or 2 per coordinate)      *)
getMinMax(s) ==
  IF SampleSize(s) > 0
    THEN {[thrown |-> FALSE, xMin |-> getMin(s), xMax |-> getMax(s)]}
    ELSE {[thrown |-> TRUE, xMin |-> Empty, xMax |-> Empty]}
           \cup {[thrown |-> FALSE, xMin |-> v, xMax |-> v]
                   : v \in Vec(SampleDimension(s), {Scale \div 2, 2 * Scale})}

(***************************************************************************)
(* The object.  pc is its position: "new" (not constructed), "failed"      *)
(* (the constructor threw), "ready", "generating" (inside generate(), k    *)
(* trajectories written), "done" (generate() returned), "raised"           *)
(* (generate() threw).  The locals of generate() are kept with it; writes  *)
(* records, per cell of realizations, the trajectories that assigned it.   *)
(* experiment_ holds the points of the member: the class reads its size    *)
(* and its points, never its dimension.                                    *)
(***************************************************************************)
NoError == [kind |-> "none", what |-> "none", k |-> 0]

NewObject ==
  [pc |-> "new", err |-> NoError,
   interval_ |-> NoInterval, experiment_ |-> Empty, step_ |-> Empty, N_ |-> 0,
   k |-> 0, realizations |-> Empty, writes |-> Empty,
   xBase |-> Empty, permutations |-> Empty, directions |-> Empty]

(* throw InvalidArgumentException(HERE) << what: every throw of the class  *)
(* is of this one exception type                                           *)
InvalidArgumentException(what, k) ==
  [NewObject EXCEPT !.pc = "failed",
                    !.err = [kind |-> "InvalidArgumentException", what |-> what, k |-> k]]

(* an exception that leaves a call into OpenTURNS *)
LibraryException(what) == [kind |-> "library", what |-> what, k |-> 0]

Constructed(interval, experiment, step, N) ==
  [NewObject EXCEPT !.pc = "ready", !.interval_ = interval, !.experiment_ = experiment,
                    !.step_ = step, !.N_ = N]

(* if (levels[k] <= 1) throw *)
BadLevel(level) == level <= 1

(* step_[k] = 1.0 / (levels[k] - 1.0) *)
LevelStep(level) == Over(Scale, (level - 1) * Scale)

(* "Compute step" loop shared by the two level constructors: the first     *)
(* rejected level throws                                                   *)
ComputeStep(levels, interval, N) ==
  LET bad == {k \in DOMAIN levels : BadLevel(levels[k])}
  IN IF bad # {}
       THEN InvalidArgumentException("Levels should be at least 2", Min(bad))
       ELSE Constructed(interval, Empty, [k \in DOMAIN levels |-> LevelStep(levels[k])], N)

(* MorrisExperiment(levels, N) *)
MorrisExperiment_Levels(levels, N) ==
  ComputeStep(levels, UnitInterval(Dim(levels)), N)

(* MorrisExperiment(levels, interval, N) *)
MorrisExperiment_LevelsInterval(levels, interval, N) ==
  IF Dim(levels) # IntervalDimension(interval)
    THEN InvalidArgumentException("Levels and interval should be of same size", 0)
    ELSE ComputeStep(levels, interval, N)

(* step_(NumericalPoint(lhsDesign.getDimension(), 0.5 / lhsDesign.getSize())): *)
(* +inf in every coordinate for the empty design                           *)
PoolStep(lhsDesign) ==
  [p \in 0 .. SampleDimension(lhsDesign) - 1 |->
     Over(Scale \div 2, SampleSize(lhsDesign) * Scale)]

(* (xMin[k] < 0.0) || (xMax[k] > 1.0) *)
OutsideUnit(lo, up) == (lo < 0) \/ (up > Scale)

(* MorrisExperiment(lhsDesign, N), minMax being what getMin() and getMax() *)
(* did                                                                     *)
MorrisExperiment_LHS(lhsDesign, N, minMax) ==
  LET xMin == minMax.xMin
      xMax == minMax.xMax
      bad == {k \in DOMAIN xMax : OutsideUnit(xMin[k], xMax[k])}
  IN IF minMax.thrown
       THEN [NewObject EXCEPT !.pc = "failed",
                              !.err = LibraryException("getMin of an empty sample")]
       ELSE IF bad # {}
         THEN InvalidArgumentException("Given design is not in [0,1]^d", Min(bad))
         ELSE Constructed(UnitInterval(SampleDimension(lhsDesign)), lhsDesign.points,
                          PoolStep(lhsDesign), N)

(* experiment_ = lhsDesign - lowerBound; experiment_ /= delta: where the   *)
(* interval has no width the quotient is x / 0                             *)
Standardize(lhsDesign, interval) ==
  [j \in DOMAIN lhsDesign.points |->
     [p \in DOMAIN lhsDesign.points[j] |->
        Over(lhsDesign.points[j][p] - interval.lower[p],
             interval.upper[p] - interval.lower[p])]]

(* MorrisExperiment(lhsDesign, interval, N) *)
MorrisExperiment_LHSInterval(lhsDesign, interval, N) ==
  IF SampleDimension(lhsDesign) # IntervalDimension(interval)
    THEN InvalidArgumentException("Levels and design should have same dimension", 0)
    ELSE Constructed(interval, Standardize(lhsDesign, interval), PoolStep(lhsDesign), N)

(* overload resolution on the argument list: the objects the call can leave *)
New(a) ==
  CASE a.mode = 1 -> {MorrisExperiment_Levels(a.levels, a.N)}
    [] a.mode = 2 -> {MorrisExperiment_LevelsInterval(a.levels, a.interval, a.N)}
    [] a.mode = 3 -> {MorrisExperiment_LHS(a.lhsDesign, a.N, minMax)
                        : minMax \in getMinMax(a.lhsDesign)}
    [] a.mode = 4 -> {MorrisExperiment_LHSInterval(a.lhsDesign, a.interval, a.N)}

(***************************************************************************)
(* generate() and its helpers.                                             *)
(***************************************************************************)
(* const UnsignedInteger dimension(step_.getDimension()) *)
Dimension(self) == Dim(self.step_)

(* the values IntegerGenerate(n) can return: those of [0, n).  For n = 0   *)
(* there is none and the sources do not say what the call does: it returns *)
(* 0, or it does not return (the object then stays inside generate())      *)
IntegerGenerate(n) == IF n = 0 THEN {0} ELSE 0 .. n - 1

(* KPermutationsDistribution(dimension, dimension) and UserDefined over    *)
(* the two points -1 and +1, built at the entry of generate().  For        *)
(* dimension >= 1 both are built.  For dimension 0 the sources do not say  *)
(* whether a distribution of permutations of nothing can be built: it is   *)
(* built, or the constructor throws                                        *)
Distributions(dimension) ==
  IF dimension = 0 THEN {"built", "thrown"} ELSE {"built"}

(* permutationDistribution.getRealization() of a built distribution *)
KPermutations(d) ==
  {f \in [0 .. d - 1 -> 0 .. d - 1] : \A p, q \in 0 .. d - 1 : f[p] = f[q] => p = q}

(* directionDistribution.getSample(dimension): +1.0 or -1.0 per component *)
Directions(d) == [0 .. d - 1 -> {1, -1}]

ColumnError == [p \in {0} |-> 0]

getOrientationMatrixColumn_Strict(self, p) ==
  LET dimension == Dimension(self)
  IN IF p >= dimension
       THEN ColumnError
       ELSE [i \in 0 .. dimension |-> IF i < p THEN -1 ELSE 1]

(* the p-th column of the orientation matrix: -1 in rows 0 .. p, +1 below; *)
(* ColumnError stands for the throw on p >= dimension                      *)
getOrientationMatrixColumn(self, p) ==
  LET dimension == Dimension(self)
  IN IF p >= dimension
       THEN ColumnError
       ELSE [i \in 0 .. dimension |-> IF i <= p THEN -1 ELSE 1]

(* generateXBaseFromLHS: the point of experiment_ at the drawn index *)
generateXBaseFromLHS(self, index) == self.experiment_[index]

GridLevel_OneMore(step) == Truncate(Plus(2 * Scale, Over(Scale, step)))

(* level = static_cast<UnsignedInteger>(1 + 1 / step_[p]); 1 for an        *)
(* infinite step                                                           *)
GridLevel(step) == Truncate(Plus(Scale, Over(Scale, step)))

(* the draws generateXBaseFromGrid can make: IntegerGenerate(level - 1)    *)
(* for each p below interval_.getDimension()                               *)
GridDraws(self) ==
  LET dimension == IntervalDimension(self.interval_)
      draws == UNION {IntegerGenerate(GridLevel(self.step_[p]) - 1) : p \in 0 .. dimension - 1}
  IN {j \in [0 .. dimension - 1 -> draws] :
        \A p \in 0 .. dimension - 1 : j[p] \in IntegerGenerate(GridLevel(self.step_[p]) - 1)}

(* generateXBaseFromGrid: xBase[p] = step_[p] * (the draw for p) *)
generateXBaseFromGrid(self, j) ==
  [p \in 0 .. IntervalDimension(self.interval_) - 1 |-> Times(self.step_[p], j[p] * Scale)]

(* the base points one trajectory can start from:                          *)
(* if (experiment_.getSize() > 0) from the design, else from the grid      *)
BasePoints(self) ==
  IF Dim(self.experiment_) > 0
    THEN {generateXBaseFromLHS(self, index) :
            index \in IntegerGenerate(Dim(self.experiment_))}
    ELSE {generateXBaseFromGrid(self, j) : j \in GridDraws(self)}

(* delta[p] * ((orientationMatrixColumn[i] * directions[p] + 1.0) * 0.5    *)
(*             * step_[p] + xBase[p]) + lowerBound[p]                      *)
PointValue(delta, orientation, direction, step, xBase, lowerBound) ==
  Plus(Times(delta,
             Plus(Times(Times((orientation * direction + 1) * Scale, Scale \div 2), step),
                  xBase)),
       lowerBound)

RowIndex_NoPlusOne(k, i, dimension) == k * dimension + i

(* realizations[k * (dimension + 1) + i] *)
RowIndex(k, i, dimension) == k * (dimension + 1) + i

(* for (UnsignedInteger p = 0; p < dimension; ++p) *)
ColumnIndices(dimension) == 0 .. dimension - 1

(* entry of generate(): the two distributions are built, then              *)
(* NumericalSample realizations(N_ * (dimension + 1), dimension), all      *)
(* zero; no member of the object is assigned.  An exception of the         *)
(* distributions' constructors leaves generate()                           *)
BeginGenerate(self, distributions) ==
  LET dimension == Dimension(self)
      rows == 0 .. self.N_ * (dimension + 1) - 1
  IN IF distributions = "thrown"
       THEN [self EXCEPT !.pc = "raised",
                         !.err = LibraryException("KPermutationsDistribution"),
                         !.k = 0, !.realizations = Empty, !.writes = Empty,
                         !.xBase = Empty, !.permutations = Empty, !.directions = Empty]
       ELSE [self EXCEPT !.pc = "generating", !.err = NoError, !.k = 0,
                         !.realizations = [r \in rows |-> [p \in 0 .. dimension - 1 |-> 0]],
                         !.writes = [r \in rows |-> [p \in 0 .. dimension - 1 |-> <<>>]],
                         !.xBase = Empty, !.permutations = Empty, !.directions = Empty]

(* one pass of the loop over k: the k-th trajectory, from the base point,  *)
(* the permutation and the directions drawn for it.  The permutation is    *)
(* drawn and kept in a local, and no expression of the pass reads it.      *)
GenerateTrajectory(self, xBase, permutations, directions) ==
  LET dimension == Dimension(self)
      lowerBound == self.interval_.lower
      upperBound == self.interval_.upper
      delta == [p \in DOMAIN lowerBound |-> upperBound[p] - lowerBound[p]]
      column == [p \in ColumnIndices(dimension) |-> getOrientationMatrixColumn(self, p)]
      target == {RowIndex(self.k, i, dimension) : i \in 0 .. dimension}
      rowOf(r) == CHOOSE i \in 0 .. dimension : RowIndex(self.k, i, dimension) = r
      drawn == [self EXCEPT !.xBase = xBase, !.permutations = permutations,
                            !.directions = directions]
  IN IF \E p \in ColumnIndices(dimension) : column[p] = ColumnError
       THEN [drawn EXCEPT !.pc = "raised",
                          !.err = [kind |-> "InvalidArgumentException",
                                   what |-> "Could not build the column", k |-> 0]]
       ELSE [drawn EXCEPT
               !.k = self.k + 1,
               !.realizations =
                 [r \in DOMAIN self.realizations |->
                    IF r \in target
                      THEN [p \in 0 .. dimension - 1 |->
                              PointValue(delta[p], column[p][rowOf(r)], directions[p],
                                         self.step_[p], xBase[p], lowerBound[p])]
                      ELSE self.realizations[r]],
               !.writes =
                 [r \in DOMAIN self.writes |->
                    IF r \in target
                      THEN [p \in 0 .. dimension - 1 |-> Append(self.writes[r][p], self.k)]
                      ELSE self.writes[r]]]

(* return realizations *)
ReturnRealizations(self) == [self EXCEPT !.pc = "done"]

(***************************************************************************)
(* Persistence.                                                            *)
(***************************************************************************)
(* save(adv): the four attributes written to the store *)
save(self) ==
  [interval_ |-> self.interval_, experiment_ |-> self.experiment_,
   step_ |-> self.step_, N_ |-> self.N_]

(* load(adv): the four members are assigned from the store *)
load(self, adv) ==
  [self EXCEPT !.interval_ = adv.interval_, !.experiment_ = adv.experiment_,
               !.step_ = adv.step_, !.N_ = adv.N_]

(* the object between two calls: no frame of generate() is live (the       *)
(* sample a finished call returned belongs to the caller, an exception it  *)
(* threw has left it); from "new" it is the object the factory builds with *)
(* the default constructor                                                 *)
Idle(self) ==
  [self EXCEPT !.pc = "ready", !.err = NoError,
               !.k = 0, !.realizations = Empty, !.writes = Empty,
               !.xBase = Empty, !.permutations = Empty, !.directions = Empty]

(* the constructor calls whose objects wrote the stores load() is given:   *)
(* one per constructor and interval, of the largest dimension and count,   *)
(* with two levels everywhere or a single design point at 0.5              *)
StoredArgs ==
  {a \in AllArgs :
     /\ \A o \in New(a) : o.pc = "ready" /\ Dim(o.step_) = MaxDim
     /\ a.N = MaxN
     /\ \A k \in DOMAIN a.levels : a.levels[k] = 2
     /\ a.mode \in {3, 4} => SampleSize(a.lhsDesign) = 1
     /\ \A j \in DOMAIN a.lhsDesign.points : \A p \in DOMAIN a.lhsDesign.points[j] :
          a.lhsDesign.points[j][p] = Scale \div 2
     /\ \A p, q \in DOMAIN a.interval.lower :
          a.interval.lower[p] = a.interval.lower[q]
            /\ a.interval.upper[p] = a.interval.upper[q]}

Init == gen = NewObject /\ args = NoArgs

(* load(adv) on an idle object (generate() is const: the object is intact  *)
(* also after a call that threw), or on the one the factory has just       *)
(* built, from a store that save() wrote for the object of the constructor *)
(* call a; args follows the members: it is the call whose object gen now   *)
(* equals                                                                  *)
Load ==
  /\ gen.pc \in {"new", "ready", "done", "raised"}
  /\ \E a \in StoredArgs : \E o \in New(a) :
       gen' = load(Idle(gen), save(o)) /\ args' = a

(* a constructor call *)
Construct ==
  /\ gen.pc = "new"
  /\ \E a \in AllArgs : \E o \in New(a) : gen' = o /\ args' = a

(* a call of generate() on the constructed object: a first one, or a later *)
(* one after a call that returned or threw                                 *)
Generate ==
  /\ gen.pc \in {"ready", "done", "raised"}
  /\ \E distributions \in Distributions(Dimension(gen)) :
       gen' = BeginGenerate(gen, distributions)
  /\ UNCHANGED args

(* one pass of the loop over the N_ trajectories *)
Trajectory ==
  /\ gen.pc = "generating"
  /\ gen.k < gen.N_
  /\ \E xBase \in BasePoints(gen), permutations \in KPermutations(Dimension(gen)),
        directions \in Directions(Dimension(gen)) :
       gen' = GenerateTrajectory(gen, xBase, permutations, directions)
  /\ UNCHANGED args

(* the loop is over: generate() returns the sample *)
Return ==
  /\ gen.pc = "generating"
  /\ gen.k >= gen.N_
  /\ gen' = ReturnRealizations(gen)
  /\ UNCHANGED args

Next == Construct \/ Load \/ Generate \/ Trajectory \/ Return

Spec == Init /\ [][Next]_vars

(***************************************************************************)
(* The quantities the properties speak of, read from the constructor call. *)
(***************************************************************************)
LevelMode == args.mode \in {1, 2}

PoolMode == args.mode \in {3, 4}

(* the object was built from levels or from a design of at least one point *)
Established == LevelMode \/ SampleSize(args.lhsDesign) > 0

(* d: the number of levels given, or the dimension of the supplied design *)
ArgDimension == IF LevelMode THEN Dim(args.levels) ELSE SampleDimension(args.lhsDesign)

(* the domain: the interval given, or the unit cube *)
ArgLower(p) == IF args.mode \in {2, 4} THEN args.interval.lower[p] ELSE 0

ArgUpper(p) == IF args.mode \in {2, 4} THEN args.interval.upper[p] ELSE Scale

ArgDelta(p) == ArgUpper(p) - ArgLower(p)

(* step_k: 1 / (L_k - 1), or 0.5 / poolSize *)
ArgStep(p) ==
  IF LevelMode THEN Over(Scale, (args.levels[p] - 1) * Scale)
               ELSE Over(Scale \div 2, SampleSize(args.lhsDesign) * Scale)

(* delta_k * step_k *)
ArgStride(p) == Times(ArgDelta(p), ArgStep(p))

Abs(x) == IF x = NaN THEN NaN ELSE IF x < 0 THEN -x ELSE x

(* |y - x| *)
Apart(x, y) == Abs(Plus(y, Neg(x)))

Alive == gen.pc \in {"ready", "generating", "done", "raised"}

InGenerate == gen.pc \in {"generating", "done"}

(* the trajectories written so far, and row i of trajectory t *)
Written == 0 .. gen.k - 1

Row(t, i) == gen.realizations[t * (ArgDimension + 1) + i]

Coords == 0 .. ArgDimension - 1

(* C1: the design has N * (d + 1) rows of dimension d; trajectory t owns   *)
(* rows t*(d+1) .. t*(d+1)+d: every cell of those rows is assigned once,   *)
(* by trajectory t, in generation order, and on return all N are written.  *)
C1_DesignLayout ==
  InGenerate =>
    /\ DOMAIN gen.realizations = 0 .. args.N * (ArgDimension + 1) - 1
    /\ \A r \in DOMAIN gen.realizations :
         /\ DOMAIN gen.realizations[r] = Coords
         /\ \A p \in Coords :
              gen.writes[r][p] = IF r \div (ArgDimension + 1) < gen.k
                                   THEN <<r \div (ArgDimension + 1)>>
                                   ELSE <<>>
    /\ (gen.pc = "done" => gen.k = args.N)

C1_Witness == gen.pc = "done" /\ args.N >= 2 /\ ArgDimension >= 2

(* C2: rows i and i+1 of a trajectory differ in exactly one coordinate, by *)
(* delta_k * step_k, and agree in all others.  Read on the objects built   *)
(* from levels or from a design of at least one point.                     *)
C2_ExactlyOneCoordinateDiffers ==
  (InGenerate /\ Established) =>
    \A t \in Written : \A i \in Coords :
      \E c \in Coords :
        /\ Row(t, i)[c] # Row(t, i + 1)[c]
        /\ Apart(Row(t, i)[c], Row(t, i + 1)[c]) = ArgStride(c)
        /\ \A p \in Coords \ {c} : Row(t, i)[p] = Row(t, i + 1)[p]

(* C3: every coordinate of every generated point lies in                   *)
(* [lowerBound_k, upperBound_k].  Read on the objects built from levels or *)
(* from a design of at least one point.                                    *)
C3_WithinBounds ==
  (InGenerate /\ Established) =>
    \A t \in Written : \A i \in 0 .. ArgDimension : \A p \in Coords :
      /\ IsNumber(Row(t, i)[p])
      /\ ArgLower(p) <= Row(t, i)[p] /\ Row(t, i)[p] <= ArgUpper(p)

(* the failure causes of a constructor call, as the specification lists them *)
CausesOf(a) ==
  {c \in {"level", "dimension", "range"} :
     \/ c = "level" /\ a.mode \in {1, 2} /\ \E k \in DOMAIN a.levels : a.levels[k] <= 1
     \/ c = "dimension" /\ a.mode = 2 /\ Dim(a.levels) # Dim(a.interval.lower)
     \/ c = "dimension" /\ a.mode = 4
          /\ SampleDimension(a.lhsDesign) # Dim(a.interval.lower)
     \/ c = "range" /\ a.mode = 3
          /\ \E j \in DOMAIN a.lhsDesign.points : \E p \in DOMAIN a.lhsDesign.points[j] :
               a.lhsDesign.points[j][p] < 0 \/ a.lhsDesign.points[j][p] > Scale}

(* every failing call of the explored input space that has a cause, with   *)
(* the kind it raises                                                      *)
FailureKinds ==
  UNION {{<<CausesOf(a), o.err.kind>> : o \in {x \in New(a) : x.pc = "failed"}}
         : a \in {b \in AllArgs : CausesOf(b) # {}}}

(* C4: construction fails exactly when a cause is present, and the kind of *)
(* the error tells the causes apart: two failing calls that raise the same *)
(* kind share a cause.  Read on the calls with levels or with a design of  *)
(* at least one point.                                                     *)
C4_DistinctKindPerCause ==
  (gen.pc # "new" /\ Established) =>
    /\ (gen.pc = "failed") <=> (CausesOf(args) # {})
    /\ gen.pc = "failed" =>
         \A f \in FailureKinds : f[2] = gen.err.kind => f[1] \cap CausesOf(args) # {}

(* C5: after a successful construction from a design, every coordinate of  *)
(* every stored point lies in [0,1].                                       *)
C5_PoolInUnitCube ==
  (Alive /\ PoolMode) =>
    \A j \in DOMAIN gen.experiment_ : \A p \in DOMAIN gen.experiment_[j] :
      /\ IsNumber(gen.experiment_[j][p])
      /\ 0 <= gen.experiment_[j][p] /\ gen.experiment_[j][p] <= Scale

(* the trajectory written last, whose draws the locals still hold *)
Last == gen.k - 1

HasLast == InGenerate /\ gen.k >= 1

(* C7: in the trajectory just written, rows i and i+1 differ in the        *)
(* coordinate permutations[i] and in no other.  Read on the objects built  *)
(* from levels or from a design of at least one point.                     *)
C7_WalkFollowsPermutation ==
  (HasLast /\ Established) =>
    \A i \in Coords :
      /\ \A p \in Coords \ {gen.permutations[i]} : Row(Last, i)[p] = Row(Last, i + 1)[p]
      /\ ArgStride(gen.permutations[i]) # 0 =>
           Row(Last, i)[gen.permutations[i]] # Row(Last, i + 1)[gen.permutations[i]]

(* the point of the domain a unit-cube point x stands for, coordinate p *)
Rescaled(x, p) == Plus(ArgLower(p), Times(ArgDelta(p), x))

C9_OnTheGrid ==
  (InGenerate /\ LevelMode) =>
    /\ gen.k >= 1 =>
         \A p \in Coords :
           \E j \in 0 .. args.levels[p] - 2 : gen.xBase[p] = j * ArgStep(p)
    /\ \A t \in Written : \A i \in 0 .. ArgDimension : \A p \in Coords :
         \E m \in 0 .. args.levels[p] - 1 :
           (Row(t, i)[p] - ArgLower(p)) * (args.levels[p] - 1) = ArgDelta(p) * m

C9_Witness ==
  /\ gen.pc = "done" /\ LevelMode /\ gen.k >= 2 /\ ArgDimension >= 2
  /\ \E p \in Coords :
       /\ args.levels[p] >= 3 /\ ArgDelta(p) > 0
       /\ gen.xBase[p] = (args.levels[p] - 2) * ArgStep(p)
       /\ \E i \in 0 .. ArgDimension : Row(Last, i)[p] = ArgUpper(p)
====
